---- MODULE Spec2Model ----
(***************************************************************************)
(* A model of src/src/dlopen.c (ECFS): the heuristic that marks the shared *)
(* libraries mapped in a core file as dlopen'd or injected.                *)
(*                                                                         *)
(*   mark_dlopen_libs     the run: resolve, scan the executable, classify  *)
(*   resolve_so_deps      builds obj->list.needed from the iterator        *)
(*   dlopen_symbol_found  parses the on-disk executable for "dlopen"       *)
(*   lookup_so_path       membership of a path in obj->list.needed         *)
(*   build_rodata_strings the .rodata string scanner (a separate machine)  *)
(*                                                                         *)
(* Strings are sequences of one-character strings; NUL is the terminator.  *)
(* The executable is a sequence of cells mem[0..st_size-1]: a cell is one  *)
(* character of a string table or one word of a header structure.          *)
(***************************************************************************)
EXTENDS Integers, Sequences, FiniteSets, TLC

VARIABLES
    \* ---- inputs of one run of mark_dlopen_libs
    script,       \* what the shared-object iterator will answer, call by call
    links,        \* the filesystem's symbolic links: path -> readlink target
    exe,          \* the on-disk executable: [io, secs, syms, corrupt, mem]
    libs0,        \* notedesc->lm_files->libs as it was before the run
    \* ---- state of the run
    pc,           \* "start", "iter", "scan", "mark", "done", "exited", "crashed"
    needed,       \* obj->list.needed, head first
    iter_log,     \* history: the iterator steps answered so far, oldest first
    resolve_ret,  \* "none" until resolve_so_deps returns, then "true"/"false"
    libs,         \* notedesc->lm_files->libs
    i,            \* the loop index of mark_dlopen_libs
    dl,           \* __dlopen
    ret,          \* what mark_dlopen_libs returned: "none", "true", "false"
    scan_calls,   \* history: how many times dlopen_symbol_found was entered
    scan_res,     \* history: "none", "true", "false", "exit", "crash"
    oob_read,     \* history: a byte at an offset >= st_size was read
    uninit_read,  \* history: the never-assigned pointer dynstr was read through
    mapped,       \* the mmap()ed view of the executable is held
    \* ---- build_rodata_strings
    rodata,       \* the buffer: pat repeated reps times (rodata_ptr, rodata_size)
    spc,          \* "idle", "loop", "returned", "crashed"
    ri,           \* i, the index of the byte the loop is at
    j,            \* j
    string,       \* string[0..j-1]
    index,        \* index
    cursize,      \* cursize
    stra,         \* *stra[0..index-1], run-length encoded: <<[s, n], ...>>
    sret,         \* the value returned, "none" before the return
    store_slot,   \* history: the slot of *stra the last store wrote, -1 for none
    store_cap     \* history: the slots *stra had when it did

runvars == <<script, links, exe, libs0, pc, needed, iter_log, resolve_ret,
             libs, i, dl, ret, scan_calls, scan_res, oob_read, uninit_read,
             mapped>>
strvars == <<rodata, spc, ri, j, string, index, cursize, stra, sret,
             store_slot, store_cap>>
vars == <<runvars, strvars>>

----------------------------------------------------------------------------
(* Bounds of the model *)

MaxIterSteps == 4   \* iterator steps before ELF_ITER_DONE / ELF_ITER_ERROR
MaxLibs == 2        \* lm_files->libcount
MaxSyms == 2        \* entries of the dynamic symbol table

----------------------------------------------------------------------------
(* Strings *)

NUL == ""

RECURSIVE SeqsUpTo(_, _)
SeqsUpTo(S, n) ==
    IF n = 0 THEN {<<>>}
    ELSE LET shorter == SeqsUpTo(S, n - 1) IN
         shorter \cup {Append(s, x) : s \in {t \in shorter : Len(t) = n - 1}, x \in S}

RECURSIVE Concat(_)
Concat(ss) == IF ss = <<>> THEN <<>> ELSE Head(ss) \o Concat(Tail(ss))

\* strrchr(s, c): the index of the last c in s, 0 for NULL
Strrchr(s, c) ==
    IF \E k \in 1..Len(s) : s[k] = c
    THEN CHOOSE k \in 1..Len(s) : s[k] = c /\ \A m \in (k+1)..Len(s) : s[m] # c
    ELSE 0

----------------------------------------------------------------------------
(* resolve_so_deps *)

PathA == <<"/", "l", "/", "a">>
PathB == <<"/", "l", "/", "b">>
PathC == <<"c">>

\* struct elf_shared_object as the iterator yields it
Entries == { [path |-> PathA, basename |-> <<"a">>],
             [path |-> PathB, basename |-> <<"b">>],
             [path |-> PathC, basename |-> <<"c">>] }

\* elf_iterator_res_t: one answer of elf_shared_object_iterator_next
StepResults == { [res |-> "ELF_ITER_NOTFOUND", entry |-> [path |-> <<>>, basename |-> <<>>]] }
               \cup { [res |-> "ELF_ITER_OK", entry |-> e] : e \in Entries }

\* A script: whether the iterator initialises, its steps that do not end the
\* iteration, and how the iteration ends.
ScriptsUpTo(n) ==
    { [init |-> FALSE, steps |-> <<>>, last |-> "ELF_ITER_DONE"] }
    \cup { [init |-> TRUE, steps |-> s, last |-> l] :
             s \in SeqsUpTo(StepResults, n), l \in {"ELF_ITER_DONE", "ELF_ITER_ERROR"} }

\* readlink(path, buf, PATH_MAX): the target, <<>> when r <= 0
NoLinks == [p \in {e.path : e \in Entries} |-> <<>>]
LinkTables == { NoLinks,
                [NoLinks EXCEPT ![PathA] = <<"b">>],
                [NoLinks EXCEPT ![PathC] = <<"b">>] }

\* lines 121-135: the path stored in the node
SoPath(entry, buf) ==
    IF Len(buf) > 0
    THEN LET p == Strrchr(entry.path, "/") IN SubSeq(entry.path, 1, p) \o buf
    ELSE entry.path

\* an insertion at the tail, as a list kept in discovery order would make it
LIST_INSERT_TAIL(list, so) == Append(list, so)

\* line 138: LIST_INSERT_HEAD(&obj->list.needed, so, _linkage)
LIST_INSERT_HEAD(list, so) == <<so>> \o list

Returned(r) ==
    /\ pc' = "done"
    /\ ret' = r

\* lines 88-92: elf_shared_object_iterator_init fails
IterInitFail ==
    /\ pc = "start"
    /\ ~script.init
    /\ resolve_ret' = "false"
    /\ Returned("false")
    /\ UNCHANGED <<strvars, script, links, exe, libs0, needed, iter_log, libs, i, dl,
                   scan_calls, scan_res, oob_read, uninit_read, mapped>>

\* lines 88-94: the iterator initialises, LIST_INIT
IterInitOk ==
    /\ pc = "start"
    /\ script.init
    /\ needed' = <<>>
    /\ pc' = "iter"
    /\ UNCHANGED <<strvars, script, links, exe, libs0, iter_log, resolve_ret, libs, i, dl,
                   ret, scan_calls, scan_res, oob_read, uninit_read, mapped>>

AtStep == pc = "iter" /\ Len(iter_log) < Len(script.steps)
AtLast == pc = "iter" /\ Len(iter_log) = Len(script.steps)
ThisStep == script.steps[Len(iter_log) + 1]

\* lines 103-107 and 140, then line 215 falls through to the scan
IterDone ==
    /\ AtLast
    /\ script.last = "ELF_ITER_DONE"
    /\ resolve_ret' = "true"
    /\ pc' = "scan"
    /\ UNCHANGED <<strvars, script, links, exe, libs0, needed, iter_log, libs, i, dl, ret,
                   scan_calls, scan_res, oob_read, uninit_read, mapped>>

\* ELF_ITER_ERROR with the failure of resolve_so_deps ignored by its caller
IterErrorScans ==
    /\ AtLast
    /\ script.last = "ELF_ITER_ERROR"
    /\ resolve_ret' = "false"
    /\ pc' = "scan"
    /\ UNCHANGED <<strvars, script, links, exe, libs0, needed, iter_log, libs, i, dl, ret,
                   scan_calls, scan_res, oob_read, uninit_read, mapped>>

\* lines 108-112, then lines 215-218
IterError ==
    /\ AtLast
    /\ script.last = "ELF_ITER_ERROR"
    /\ resolve_ret' = "false"
    /\ Returned("false")
    /\ UNCHANGED <<strvars, script, links, exe, libs0, needed, iter_log, libs, i, dl,
                   scan_calls, scan_res, oob_read, uninit_read, mapped>>

\* lines 113-116
IterNotFound ==
    /\ AtStep
    /\ ThisStep.res = "ELF_ITER_NOTFOUND"
    /\ iter_log' = Append(iter_log, ThisStep)
    /\ UNCHANGED <<strvars, script, links, exe, libs0, pc, needed, resolve_ret, libs, i, dl,
                   ret, scan_calls, scan_res, oob_read, uninit_read, mapped>>

\* lines 117-138: a node for the entry; a symbolic link whose path holds no
\* '/' makes resolve_so_deps return false (lines 125-128)
IterEntry ==
    /\ AtStep
    /\ ThisStep.res = "ELF_ITER_OK"
    /\ LET entry == ThisStep.entry
           buf == links[entry.path]
       IN  IF Len(buf) > 0 /\ Strrchr(entry.path, "/") = 0
           THEN /\ resolve_ret' = "false"
                /\ Returned("false")
                /\ UNCHANGED <<needed, iter_log>>
           ELSE /\ needed' = LIST_INSERT_HEAD(needed,
                                [path |-> SoPath(entry, buf), basename |-> entry.basename])
                /\ iter_log' = Append(iter_log, ThisStep)
                /\ UNCHANGED <<pc, ret, resolve_ret>>
    /\ UNCHANGED <<strvars, script, links, exe, libs0, libs, i, dl, scan_calls, scan_res,
                   oob_read, uninit_read, mapped>>

----------------------------------------------------------------------------
(* The on-disk executable *)

\* Offsets and sizes are counted in cells.  A section header and a symbol
\* take SizeofShdr and SizeofSym cells: the first holds the fields, the rest
\* is padding.
SizeofShdr == 2
SizeofSym == 2

DYNSTR == <<".", "d", "y", "n", "s", "t", "r">>
DYNSYM == <<".", "d", "y", "n", "s", "y", "m">>
TEXT == <<".", "t">>
SHSTRTAB == <<".", "s">>
DLOPEN == <<"d", "l", "o", "p", "e", "n">>
DLOPE == <<"d", "l", "o", "p", "e">>
DLOPENX == <<"d", "l", "o", "p", "e", "n", "x">>

\* One cell: a character, or the fields of a structure.
\*   ElfW(Ehdr): a = e_shoff, b = e_shnum, d = e_shstrndx
\*   ElfW(Shdr): a = sh_name, b = sh_offset, d = sh_size
\*   ElfW(Sym):  a = st_name
Ch(c) == [t |-> "ch", c |-> c, a |-> 0, b |-> 0, d |-> 0]
Word(t, a, b, d) == [t |-> t, c |-> "?", a |-> a, b |-> b, d |-> d]
Pad == Word("pad", 0, 0, 0)

\* A string table: a leading NUL, then each name with its terminator.
StrTab(names) == <<NUL>> \o Concat([k \in 1..Len(names) |-> names[k] \o <<NUL>>])
NameOff(names, k) == Len(StrTab(SubSeq(names, 1, k - 1)))

Corruptions == {"none", "e_shoff", "e_shstrndx", "sh_name", "sh_offset",
                "shstr_offset", "sh_size", "st_name"}

\* The file holding sections `secs` (then the section-name table itself) and
\* dynamic symbols `syms`, with the field that `corrupt` names pointing
\* outside the file.
Layout(secs, syms, corrupt) ==
    LET names == secs \o <<SHSTRTAB>>
        shstr == StrTab(names)
        dynstr == StrTab(syms)
        shstr_off == 1
        dynstr_off == shstr_off + Len(shstr)
        symtab_off == dynstr_off + Len(dynstr)
        shoff == symtab_off + Len(syms) * SizeofSym
        size == shoff + Len(names) * SizeofShdr
        bad == size + 1
        sh_name(k) == IF corrupt = "sh_name" /\ k = 1 THEN bad ELSE NameOff(names, k)
        sh_offset(k) ==
            IF names[k] = DYNSTR THEN (IF corrupt = "sh_offset" THEN bad ELSE dynstr_off)
            ELSE IF names[k] = DYNSYM THEN (IF corrupt = "sh_offset" THEN bad ELSE symtab_off)
            ELSE IF names[k] = SHSTRTAB
                 THEN (IF corrupt = "shstr_offset" THEN bad ELSE shstr_off)
            ELSE 0
        sh_size(k) ==
            IF names[k] = DYNSTR THEN Len(dynstr)
            ELSE IF names[k] = DYNSYM
                 THEN (IF corrupt = "sh_size" THEN bad * SizeofSym ELSE Len(syms) * SizeofSym)
            ELSE IF names[k] = SHSTRTAB THEN Len(shstr)
            ELSE 0
        st_name(k) == IF corrupt = "st_name" /\ k = 1 THEN bad ELSE NameOff(syms, k)
        ehdr == Word("ehdr",
                     IF corrupt = "e_shoff" THEN bad ELSE shoff,
                     Len(names),
                     IF corrupt = "e_shstrndx" THEN bad ELSE Len(names) - 1)
    IN  <<ehdr>>
        \o [k \in 1..Len(shstr) |-> Ch(shstr[k])]
        \o [k \in 1..Len(dynstr) |-> Ch(dynstr[k])]
        \o Concat([k \in 1..Len(syms) |-> <<Word("sym", st_name(k), 0, 0), Pad>>])
        \o Concat([k \in 1..Len(names) |->
                      <<Word("shdr", sh_name(k), sh_offset(k), sh_size(k)), Pad>>])

\* io: which of open, fstat and mmap fails on the file, "ok" when none does
Exe(io, secs, syms, corrupt) ==
    [io |-> io, secs |-> secs, syms |-> syms, corrupt |-> corrupt,
     mem |-> Layout(secs, syms, corrupt)]

----------------------------------------------------------------------------
(* dlopen_symbol_found *)

InFile(m, off, n) == off + n <= Len(m)
Cell(m, off) == m[off + 1]

\* strcmp(&m[off], lit) from character k on: "eq", "ne", or "oob" when the
\* comparison reads past the end of the file
RECURSIVE Strcmp(_, _, _, _)
Strcmp(m, off, lit, k) ==
    IF ~InFile(m, off + k, 1) THEN "oob"
    ELSE LET c == Cell(m, off + k).c
             want == IF k < Len(lit) THEN lit[k + 1] ELSE NUL
         IN  IF c # want THEN "ne"
             ELSE IF k = Len(lit) THEN "eq"
             ELSE Strcmp(m, off, lit, k + 1)

\* lines 172-181; dynstr = -1 is the unassigned pointer, symtab = -1 is NULL
RECURSIVE ScanSections(_, _, _, _, _)
ScanSections(m, ehdr, shstrtab, k, st) ==
    IF k >= ehdr.b THEN st
    ELSE LET at == ehdr.a + k * SizeofShdr IN
         IF ~InFile(m, at, SizeofShdr) THEN [st EXCEPT !.oob = TRUE]
         ELSE LET sh == Cell(m, at)
                  isdynstr == Strcmp(m, shstrtab + sh.a, DYNSTR, 0)
                  isdynsym == Strcmp(m, shstrtab + sh.a, DYNSYM, 0)
              IN  IF isdynstr = "oob" THEN [st EXCEPT !.oob = TRUE]
                  ELSE IF isdynstr = "eq"
                       THEN ScanSections(m, ehdr, shstrtab, k + 1,
                                         [st EXCEPT !.dynstr = sh.b])
                  ELSE IF isdynsym = "oob" THEN [st EXCEPT !.oob = TRUE]
                  ELSE IF isdynsym = "eq"
                       THEN ScanSections(m, ehdr, shstrtab, k + 1,
                                         [st EXCEPT !.symcount = sh.d \div SizeofSym,
                                                    !.symtab = sh.b])
                  ELSE ScanSections(m, ehdr, shstrtab, k + 1, st)

\* lines 188-192
RECURSIVE ScanSymbols(_, _, _)
ScanSymbols(m, st, k) ==
    IF k >= st.symcount THEN "false"
    ELSE LET at == st.symtab + k * SizeofSym IN
         IF ~InFile(m, at, SizeofSym) THEN "oob"
         ELSE IF st.dynstr = -1 THEN "uninit"
         ELSE LET isdlopen == Strcmp(m, st.dynstr + Cell(m, at).a, DLOPEN, 0) IN
              IF isdlopen = "oob" THEN "oob"
              ELSE IF isdlopen = "eq" THEN "true"
              ELSE ScanSymbols(m, st, k + 1)

\* lines 167-192 on the mapped file: "true", "false", or the undefined
\* behaviour met first: "oob" (a read outside the mapping) or "uninit" (a read
\* through dynstr, which line 153 leaves unassigned)
ParseExe(m) ==
    IF ~InFile(m, 0, 1) THEN "oob"
    ELSE LET ehdr == Cell(m, 0)
             at == ehdr.a + ehdr.d * SizeofShdr
         IN  IF ~InFile(m, at, SizeofShdr) THEN "oob"
             ELSE LET st == ScanSections(m, ehdr, Cell(m, at).b, 0,
                                [oob |-> FALSE, dynstr |-> -1, symtab |-> -1,
                                 symcount |-> 0])
                  IN  IF st.oob THEN "oob"
                      ELSE IF st.symtab = -1 THEN "false"
                      ELSE ScanSymbols(m, st, 0)

Exited ==
    /\ pc' = "exited"
    /\ scan_res' = "exit"
    /\ scan_calls' = scan_calls + 1

\* line 159: xopen cannot open the file
XopenFail ==
    /\ pc = "scan"
    /\ exe.io = "open"
    /\ Exited
    /\ UNCHANGED <<strvars, script, links, exe, libs0, needed, iter_log, resolve_ret, libs,
                   i, dl, ret, oob_read, uninit_read, mapped>>

\* line 160: xfstat fails
XfstatFail ==
    /\ pc = "scan"
    /\ exe.io = "fstat"
    /\ Exited
    /\ UNCHANGED <<strvars, script, links, exe, libs0, needed, iter_log, resolve_ret, libs,
                   i, dl, ret, oob_read, uninit_read, mapped>>

\* mmap fails and the scan answers false instead of exiting
MmapFailReturnsFalse ==
    /\ pc = "scan"
    /\ exe.io = "mmap"
    /\ scan_calls' = scan_calls + 1
    /\ scan_res' = "false"
    /\ dl' = FALSE
    /\ i' = 0
    /\ pc' = "mark"
    /\ UNCHANGED <<strvars, script, links, exe, libs0, needed, iter_log, resolve_ret, libs,
                   ret, oob_read, uninit_read, mapped>>

\* lines 161-165: mmap fails, exit(-1)
MmapFail ==
    /\ pc = "scan"
    /\ exe.io = "mmap"
    /\ Exited
    /\ UNCHANGED <<strvars, script, links, exe, libs0, needed, iter_log, resolve_ret, libs,
                   i, dl, ret, oob_read, uninit_read, mapped>>

\* lines 228-231 and the head of the loop of line 232
ScanResult(r) ==
    /\ scan_res' = r
    /\ dl' = (r = "true")
    /\ i' = 0
    /\ pc' = "mark"

\* lines 159-192 with every offset inside the file: the scan returns; the
\* mapping and the descriptor are still held (there is no munmap, no close)
ScanReturn ==
    /\ pc = "scan"
    /\ exe.io = "ok"
    /\ ParseExe(exe.mem) \in {"true", "false"}
    /\ scan_calls' = scan_calls + 1
    /\ mapped' = TRUE
    /\ ScanResult(ParseExe(exe.mem))
    /\ UNCHANGED <<strvars, script, links, exe, libs0, needed, iter_log, resolve_ret, libs,
                   ret, oob_read, uninit_read>>

\* lines 167-192 reading outside the mapping or through the unassigned
\* dynstr: the process is killed by the fault, or the read yields some bytes
\* and the scan returns either answer
ScanUndefined ==
    /\ pc = "scan"
    /\ exe.io = "ok"
    /\ ParseExe(exe.mem) \in {"oob", "uninit"}
    /\ scan_calls' = scan_calls + 1
    /\ oob_read' = (ParseExe(exe.mem) = "oob")
    /\ uninit_read' = (ParseExe(exe.mem) = "uninit")
    /\ \/ /\ pc' = "crashed"
          /\ scan_res' = "crash"
          /\ mapped' = FALSE
          /\ UNCHANGED <<dl, i>>
       \/ /\ \E r \in {"true", "false"} : ScanResult(r)
          /\ mapped' = TRUE
    /\ UNCHANGED <<strvars, script, links, exe, libs0, needed, iter_log, resolve_ret, libs,
                   ret>>

----------------------------------------------------------------------------
(* lookup_so_path and the loop of mark_dlopen_libs *)

\* a lookup that compares the last component of the path with the basename
lookup_by_basename(list, lookup_path) ==
    \E k \in 1..Len(list) :
        Len(lookup_path) >= Len(list[k].basename)
        /\ SubSeq(lookup_path, Len(lookup_path) - Len(list[k].basename) + 1,
                  Len(lookup_path)) = list[k].basename

\* lines 195-204
lookup_so_path(list, lookup_path) ==
    \E k \in 1..Len(list) : list[k].path = lookup_path

\* the marking with no else before line 237
MarkBoth(lib, member, dlopen) ==
    IF member THEN lib
    ELSE IF dlopen THEN [lib EXCEPT !.dlopen = TRUE]
    ELSE [lib EXCEPT !.injected = TRUE, !.dlopen = TRUE]

\* lines 233-239: one entry of lm_files->libs
MarkEntry(lib, member, dlopen) ==
    IF member THEN lib
    ELSE IF dlopen THEN [lib EXCEPT !.dlopen = TRUE]
    ELSE [lib EXCEPT !.injected = TRUE]

\* lines 232-240: one iteration
MarkLib ==
    /\ pc = "mark"
    /\ i < Len(libs)
    /\ libs' = [libs EXCEPT ![i + 1] =
                   MarkEntry(libs[i + 1], lookup_so_path(needed, libs[i + 1].path), dl)]
    /\ i' = i + 1
    /\ UNCHANGED <<strvars, script, links, exe, libs0, pc, needed, iter_log, resolve_ret, dl,
                   ret, scan_calls, scan_res, oob_read, uninit_read, mapped>>

\* line 241
MarkReturn ==
    /\ pc = "mark"
    /\ i >= Len(libs)
    /\ Returned("true")
    /\ UNCHANGED <<strvars, script, links, exe, libs0, needed, iter_log, resolve_ret, libs,
                   i, dl, scan_calls, scan_res, oob_read, uninit_read, mapped>>

----------------------------------------------------------------------------
(* build_rodata_strings *)

MAX_STRINGS == 1024
StringSize == 16384     \* alloca(8192 * 2)
MaxRodata == 5          \* bytes of a buffer that is enumerated byte by byte

Bytes == {NUL, ".", "s", "o", "x"}
SO == <<".", "s", "o">>

RodataSize == Len(rodata.pat) * rodata.reps
Byte(k) == rodata.pat[(k % Len(rodata.pat)) + 1]

\* line 62: strstr(string, ".so") finds the substring
Strstr(s, sub) == \E k \in 1..(Len(s) - Len(sub) + 1) : SubSeq(s, k, k + Len(sub) - 1) = sub

\* line 63: *((*stra) + index++) = xstrdup(string)
Store(a, s) ==
    IF a # <<>> /\ a[Len(a)].s = s
    THEN [a EXCEPT ![Len(a)].n = @ + 1]
    ELSE Append(a, [s |-> s, n |-> 1])

StringsIdle ==
    /\ rodata = [pat |-> <<>>, reps |-> 0]
    /\ spc = "idle"
    /\ ri = 0
    /\ j = 0
    /\ string = <<>>
    /\ index = 0
    /\ cursize = 0
    /\ stra = <<>>
    /\ sret = "none"
    /\ store_slot = -1
    /\ store_cap = 0

\* lines 57-59: a byte that is not NUL; past the end of the alloca()ed
\* buffer the write is undefined: it kills the process or lands on the stack
ScanChar ==
    /\ spc = "loop"
    /\ ri < RodataSize
    /\ Byte(ri) # NUL
    /\ string' = Append(string, Byte(ri))
    /\ j' = j + 1
    /\ ri' = ri + 1
    /\ spc' \in (IF j >= StringSize THEN {"loop", "crashed"} ELSE {"loop"})
    /\ UNCHANGED <<runvars, rodata, index, cursize, stra, sret, store_slot, store_cap>>

\* lines 60-65: the end of a run
EndOfRun ==
    /\ j' = 0
    /\ string' = <<>>
    /\ IF Strstr(string, SO)
       THEN /\ stra' = Store(stra, string)
            /\ index' = index + 1
            /\ store_slot' = index
            /\ store_cap' = cursize
       ELSE UNCHANGED <<stra, index, store_slot, store_cap>>

\* line 66
AtGrowthPoint(n) == n = MAX_STRINGS - 1

\* lines 60-74: a NUL byte; the store is made whatever index is, and beyond
\* the array it lands in the heap behind it
ScanNul ==
    /\ spc = "loop"
    /\ ri < RodataSize
    /\ Byte(ri) = NUL
    /\ EndOfRun
    /\ cursize' = IF AtGrowthPoint(index') THEN cursize * 2 ELSE cursize
    /\ ri' = ri + 1
    /\ spc' \in (IF j >= StringSize THEN {"loop", "crashed"} ELSE {"loop"})
    /\ UNCHANGED <<runvars, rodata, sret>>

\* line 63 writing at or beyond the end of the array: the process is killed
StoreCrash ==
    /\ spc = "loop"
    /\ ri < RodataSize
    /\ Byte(ri) = NUL
    /\ Strstr(string, SO)
    /\ index >= cursize
    /\ EndOfRun
    /\ spc' = "crashed"
    /\ UNCHANGED <<runvars, rodata, ri, cursize, sret>>

\* lines 70-73: realloc returns NULL
ReallocFail ==
    /\ spc = "loop"
    /\ ri < RodataSize
    /\ Byte(ri) = NUL
    /\ EndOfRun
    /\ AtGrowthPoint(index')
    /\ cursize' = cursize * 2
    /\ sret' = -1
    /\ spc' = "returned"
    /\ UNCHANGED <<runvars, rodata, ri>>

\* line 76
ScanEnd ==
    /\ spc = "loop"
    /\ ri >= RodataSize
    /\ sret' = index
    /\ spc' = "returned"
    /\ UNCHANGED <<runvars, rodata, ri, j, string, index, cursize, stra,
                   store_slot, store_cap>>

NextStrings ==
    \/ ScanChar
    \/ ScanNul
    \/ StoreCrash
    \/ ReallocFail
    \/ ScanEnd

\* every buffer of up to MaxRodata bytes, and one long buffer: ".so" NUL
\* repeated, one run more than twice MAX_STRINGS
Rodatas ==
    { [pat |-> p, reps |-> 1] : p \in SeqsUpTo(Bytes, MaxRodata) \ {<<>>} }
    \cup { [pat |-> <<>>, reps |-> 0],
           [pat |-> SO \o <<NUL>>, reps |-> 2 * MAX_STRINGS + 1] }

\* lines 50-56
InitStrings ==
    /\ rodata \in Rodatas
    /\ spc = "loop"
    /\ ri = 0
    /\ j = 0
    /\ string = <<>>
    /\ index = 0
    /\ cursize = MAX_STRINGS
    /\ stra = <<>>
    /\ sret = "none"
    /\ store_slot = -1
    /\ store_cap = MAX_STRINGS
    /\ script = [init |-> FALSE, steps |-> <<>>, last |-> "ELF_ITER_DONE"]
    /\ links = NoLinks
    /\ exe = Exe("ok", <<>>, <<>>, "none")
    /\ libs0 = <<>>
    /\ libs = <<>>
    /\ pc = "idle"
    /\ needed = <<>>
    /\ iter_log = <<>>
    /\ resolve_ret = "none"
    /\ i = 0
    /\ dl = FALSE
    /\ ret = "none"
    /\ scan_calls = 0
    /\ scan_res = "none"
    /\ oob_read = FALSE
    /\ uninit_read = FALSE
    /\ mapped = FALSE

SpecStrings == InitStrings /\ [][NextStrings]_vars

----------------------------------------------------------------------------
(* The runs *)

LibRecs == [path : {PathA, PathB}, injected : BOOLEAN, dlopen : BOOLEAN]

SymLists == SeqsUpTo({DLOPEN, DLOPE, DLOPENX}, MaxSyms)
SecLists == { <<>>, <<TEXT>>, <<DYNSYM>>, <<DYNSTR>>, <<DYNSTR, DYNSYM>>,
              <<DYNSYM, TEXT, DYNSTR>> }

\* every layout, and one file for each way the file cannot be mapped
AllExes ==
    { Exe("ok", s, y, c) : s \in SecLists, y \in SymLists, c \in Corruptions }
    \cup { Exe(io, <<>>, <<>>, "none") : io \in {"open", "fstat", "mmap"} }

\* a few files: no dynamic symbol table, one with and one without dlopen,
\* one whose section-header table lies outside the file, one unreadable
FewExes ==
    { Exe("ok", <<TEXT>>, <<>>, "none"),
      Exe("ok", <<DYNSTR, DYNSYM>>, <<DLOPEN>>, "none"),
      Exe("ok", <<DYNSTR, DYNSYM>>, <<DLOPE>>, "none"),
      Exe("ok", <<DYNSTR, DYNSYM>>, <<DLOPE>>, "e_shoff") }
    \cup { Exe(io, <<>>, <<>>, "none") : io \in {"open", "fstat", "mmap"} }

FewScripts ==
    ScriptsUpTo(0)
    \cup { [init |-> TRUE, steps |-> s, last |-> "ELF_ITER_DONE"] :
             s \in { <<[res |-> "ELF_ITER_OK", entry |-> e]>> : e \in Entries }
                   \cup { <<CHOOSE r \in StepResults : r.res = "ELF_ITER_NOTFOUND",
                            [res |-> "ELF_ITER_OK", entry |-> e]>> : e \in Entries } }

\* one script for each way resolve_so_deps ends
CoverScripts ==
    { [init |-> FALSE, steps |-> <<>>, last |-> "ELF_ITER_DONE"],
      [init |-> TRUE, steps |-> <<>>, last |-> "ELF_ITER_ERROR"],
      [init |-> TRUE, last |-> "ELF_ITER_DONE",
       steps |-> <<CHOOSE r \in StepResults : r.res = "ELF_ITER_NOTFOUND",
                   [res |-> "ELF_ITER_OK", entry |-> [path |-> PathB, basename |-> <<"b">>]]>>] }

InitWith(scripts, tables, exes, liblists) ==
    /\ script \in scripts
    /\ links \in tables
    /\ exe \in exes
    /\ libs0 \in liblists
    /\ libs = libs0
    /\ pc = "start"
    /\ needed = <<>>
    /\ iter_log = <<>>
    /\ resolve_ret = "none"
    /\ i = 0
    /\ dl = FALSE
    /\ ret = "none"
    /\ scan_calls = 0
    /\ scan_res = "none"
    /\ oob_read = FALSE
    /\ uninit_read = FALSE
    /\ mapped = FALSE
    /\ StringsIdle

Next ==
    \/ IterInitFail
    \/ IterInitOk
    \/ IterDone
    \/ IterError
    \/ IterNotFound
    \/ IterEntry
    \/ XopenFail
    \/ XfstatFail
    \/ MmapFail
    \/ ScanReturn
    \/ ScanUndefined
    \/ MarkLib
    \/ MarkReturn

\* the classification: every list of mapped libraries, a few dependency sets
Init == InitWith(FewScripts, LinkTables, FewExes, SeqsUpTo(LibRecs, MaxLibs))
Spec == Init /\ [][Next]_vars

\* the resolver: every script of the iterator
InitResolve ==
    InitWith(ScriptsUpTo(MaxIterSteps), LinkTables, FewExes,
             { <<>>, <<[path |-> PathA, injected |-> FALSE, dlopen |-> TRUE]>> })
SpecResolve == InitResolve /\ [][Next]_vars

\* the symbol scan: every layout of the executable
InitExe ==
    InitWith(CoverScripts, {NoLinks}, AllExes, SeqsUpTo(LibRecs, 1))
SpecExe == InitExe /\ [][Next]_vars

----------------------------------------------------------------------------
(* Properties of the run *)

Succeeded == pc = "done" /\ ret = "true"
Clean == \A k \in 1..Len(libs0) : ~libs0[k].injected /\ ~libs0[k].dlopen
Explained(k) == \E n \in 1..Len(needed) : needed[n].path = libs[k].path
ExactlyOne(a, b, c) == (a /\ ~b /\ ~c) \/ (~a /\ b /\ ~c) \/ (~a /\ ~b /\ c)
FlagsUnchanged == libs = libs0

\* C1: when every entry starts {injected = false, dlopen = false}, no entry
\* ever has both flags set, and after a successful run exactly one of
\* explained, dlopen, injected holds of each entry.
C1_AtMostOneFlag ==
    Clean =>
        /\ \A k \in 1..Len(libs) : ~(libs[k].injected /\ libs[k].dlopen)
        /\ Succeeded =>
              \A k \in 1..Len(libs) :
                  ExactlyOne(Explained(k), libs[k].dlopen, libs[k].injected)

C1_Witness ==
    /\ Succeeded
    /\ Clean
    /\ Len(libs) = 2
    /\ \E k \in 1..Len(libs) : libs[k].injected
    /\ \E k \in 1..Len(libs) : Explained(k)

\* C2: after a successful run over entries that start {false, false}, the
\* flags of each entry are decided by whether a node of the DependencySet has
\* exactly its path and by the loader-present boolean, which is the answer
\* of the symbol scan.
C2_FlagsDecided ==
    (Succeeded /\ Clean) =>
        /\ dl = (scan_res = "true")
        /\ \A k \in 1..Len(libs) :
              /\ libs[k].path = libs0[k].path
              /\ libs[k].injected = (~Explained(k) /\ ~dl)
              /\ libs[k].dlopen = (~Explained(k) /\ dl)

\* a mapped library whose path is a symbolic link the resolver followed: the
\* node holds the link's target, the comparison is of the strings
C2_Witness ==
    /\ Succeeded
    /\ Clean
    /\ dl
    /\ links[PathA] # <<>>
    /\ \E k \in 1..Len(libs) :
          libs[k].path = PathA /\ libs[k].dlopen /\ ~libs[k].injected
    /\ \E k \in 1..Len(libs) :
          libs[k].path = PathB /\ ~libs[k].dlopen /\ ~libs[k].injected
    /\ \E n \in 1..Len(needed) : needed[n].basename = <<"a">>

\* C3: once resolve_so_deps has failed, mark_dlopen_libs has returned
\* failure, the symbol scan was never entered and no flag has changed.
C3_ResolveFailure ==
    resolve_ret = "false" =>
        /\ pc = "done"
        /\ ret = "false"
        /\ scan_calls = 0
        /\ scan_res = "none"
        /\ FlagsUnchanged

C3_Witness ==
    /\ resolve_ret = "false"
    /\ script.last = "ELF_ITER_ERROR"
    /\ Len(iter_log) = 2
    /\ iter_log[1].res = "ELF_ITER_NOTFOUND"
    /\ Len(needed) = 1
    /\ Len(libs) = 1
    /\ libs[1].dlopen
    /\ ~lookup_so_path(needed, libs[1].path)

\* C9: after resolve_so_deps returns success the DependencySet holds one
\* node for each step that yielded an entry, the latest first; not-found
\* steps add nothing and do not end the iteration; an entry yielded twice
\* has two nodes.
OkSteps == SelectSeq(script.steps, LAMBDA r : r.res = "ELF_ITER_OK")
C9_HeadInsertion ==
    resolve_ret = "true" =>
        /\ iter_log = script.steps
        /\ Len(needed) = Len(OkSteps)
        /\ \A k \in 1..Len(needed) :
              LET e == OkSteps[Len(OkSteps) + 1 - k].entry IN
              /\ needed[k].basename = e.basename
              /\ needed[k].path = (IF links[e.path] = <<>> THEN e.path ELSE PathB)

\* an entry, a not-found step, another entry, the first entry again
C9_Witness ==
    /\ resolve_ret = "true"
    /\ Len(script.steps) = 4
    /\ script.steps[1].res = "ELF_ITER_OK"
    /\ script.steps[2].res = "ELF_ITER_NOTFOUND"
    /\ script.steps[3].res = "ELF_ITER_OK"
    /\ script.steps[3].entry # script.steps[1].entry
    /\ script.steps[4] = script.steps[1]
    /\ Len(needed) = 3
    /\ needed[1] = needed[3]
    /\ needed[2] # needed[1]

----------------------------------------------------------------------------
(* Properties of the symbol scan *)

Scanned == scan_calls > 0
HasDynsym == \E k \in 1..Len(exe.secs) : exe.secs[k] = DYNSYM
HasDynstr == \E k \in 1..Len(exe.secs) : exe.secs[k] = DYNSTR
NamesDlopen == \E k \in 1..Len(exe.syms) : exe.syms[k] = DLOPEN

\* C4: on every layout (here: every layout whose offsets all lie inside the
\* file, which can be mapped) the scan returns false when no section is
\* named .dynsym and otherwise true exactly when a dynamic symbol's name,
\* read from .dynstr, is dlopen; with no .dynsym no entry is marked dlopen.
C4_SymbolFound ==
    (Scanned /\ exe.io = "ok" /\ exe.corrupt = "none") =>
        /\ scan_res = IF HasDynsym /\ HasDynstr /\ NamesDlopen THEN "true" ELSE "false"
        /\ ~HasDynsym /\ Clean => \A k \in 1..Len(libs) : ~libs[k].dlopen

\* C5: after dlopen_symbol_found has returned, the mapping is not held.
C5_MappingReleased ==
    scan_res \in {"true", "false"} => ~mapped

\* C6: no byte outside the mapped file is read, and an offset or size that
\* points outside the file makes the run fail.
C6_FormatFailure ==
    /\ ~oob_read
    /\ (Scanned /\ exe.io = "ok" /\ exe.corrupt # "none") =>
          scan_res \notin {"true", "false"} /\ (pc = "done" => ret = "false")

----------------------------------------------------------------------------
(* Properties of build_rodata_strings *)

Buffer == [k \in 1..RodataSize |-> Byte(k - 1)]

\* the NUL-separated runs of the buffer: a run starts at the first byte and
\* after each NUL, and ends before the next NUL or at the end of the buffer
RunStarts == {k \in 1..(RodataSize + 1) : k = 1 \/ Buffer[k - 1] = NUL}
RunAt(k) ==
    LET stop == CHOOSE e \in k..(RodataSize + 1) :
                    /\ e = RodataSize + 1 \/ Buffer[e] = NUL
                    /\ \A m \in k..(e - 1) : Buffer[m] # NUL
    IN  SubSeq(Buffer, k, stop - 1)
HasSo(run) == \E k \in 1..(Len(run) - 2) : SubSeq(run, k, k + 2) = SO
SoStarts == {k \in RunStarts : HasSo(RunAt(k))}
\* the n-th run holding ".so", in the order of the buffer
SoRun(n) == RunAt(CHOOSE k \in SoStarts : Cardinality({m \in SoStarts : m < k}) = n - 1)

\* the string in slot n (from 1) of *stra
RECURSIVE Slot(_, _)
Slot(a, n) == IF n <= Head(a).n THEN Head(a).s ELSE Slot(Tail(a), n - Head(a).n)
RECURSIVE Stored(_)
Stored(a) == IF a = <<>> THEN 0 ELSE Head(a).n + Stored(Tail(a))

\* C7: on every buffer the scan returns (allocation failures apart), and it
\* returns the number K of NUL-separated runs that hold ".so", with exactly
\* those runs stored, in the order of the buffer, once per occurrence.
C7_ReturnsK ==
    /\ spc # "crashed"
    /\ (spc = "returned" /\ sret # -1) =>
          /\ sret = Cardinality(SoStarts)
          /\ Stored(stra) = sret
          /\ \A n \in 1..sret : Slot(stra, n) = SoRun(n)

\* C10: every store writes a slot below the capacity the array has then.
C10_StoreWithinCapacity == store_slot < store_cap

====
